---- MODULE Spec2Model ----
(***************************************************************************)
(* Dynamics 365 MCP tools: token manager, HTTP gateway and the domain      *)
(* operations (search, get, list, create, update) built on them.           *)
(*                                                                         *)
(* One tool call runs at a time.  A call advances through gateway calls    *)
(* (stage); every gateway call first builds its headers, which acquires a  *)
(* token (phase "headers", possibly "flow"), and then sends one HTTP       *)
(* request (phase "send").  The identity provider and the remote API are   *)
(* the environment: their answers are chosen with \E.                      *)
(*                                                                         *)
(* SpecConcurrent is a second specification: two callers of                *)
(* get_access_token under the interactive strategy, sharing the cache      *)
(* file, each taking _get_interactive_token one step at a time.            *)
(***************************************************************************)
EXTENDS Integers, Sequences, FiniteSets, TLC

\* ------------------------------------------------------------------ bounds
MaxTicks == 2        \* clock ticks the model lets pass
TickLen == 300       \* seconds per clock tick
MaxRecords == 3      \* records the remote side can have matching a query
MaxN == 2            \* largest max_results / top a caller passes

\* ------------------------------------------------------- program constants
TOKEN_MARGIN == 300          \* safety margin, seconds
DEFAULT_EXPIRES_IN == 3600   \* lifetime assumed when the IdP names none
MAX_LEN == 40                \* ceiling of the validated text field
HTTP_OK == 200
HTTP_NO_CONTENT == 204

\* -------------------------------------------------------------- Python values
Null == "null"        \* None
Absent == "absent"    \* a key that is not in a dict
NoTop == {}           \* request without a $top parameter ({n}: $top = n)

Min(a, b) == IF a < b THEN a ELSE b

\* truthiness of a str-or-None value
Truthy(v) == v # Null /\ v # "" /\ v # Absent

\* ------------------------------------------------------------ token manager
AuthModes == {"interactive", "service_account"}
Tokens == {"tok-A", "tok-B"}

\* content of token_cache.json
MissingCache == [state |-> "missing", access_token |-> Absent, expires_on |-> 0]
GarbageCache == [state |-> "garbage", access_token |-> Absent, expires_on |-> 0]
CacheEntry(t, e) == [state |-> "entry", access_token |-> t, expires_on |-> e]
\* a file that open() cannot read
UnreadableCache ==
    [state |-> "unreadable", access_token |-> Absent, expires_on |-> 0]
\* a JSON object without the access_token key, or without the expires_on key
NoTokenCache(e) ==
    [state |-> "no_access_token", access_token |-> Absent, expires_on |-> e]
NoExpiryCache(t) ==
    [state |-> "no_expires_on", access_token |-> t, expires_on |-> 0]

\* result dict of an msal acquire_token_* call
AuthFailure == [has_token |-> FALSE, access_token |-> Absent,
                has_expires_in |-> FALSE, expires_in |-> 0]
AuthSuccess(t, h, e) == [has_token |-> TRUE, access_token |-> t,
                         has_expires_in |-> h, expires_in |-> e]
ExpiresInChoices == {600, 900}
AuthResults ==
    {AuthFailure}
      \cup {AuthSuccess(t, TRUE, e) : t \in Tokens, e \in ExpiresInChoices}
      \cup {AuthSuccess(t, FALSE, 0) : t \in Tokens}

\* _load_cached_token: the cached token, or None
load_cached_token_nomargin(c, t) ==
    IF c.state = "entry" /\ c.expires_on > t THEN c.access_token ELSE Null

\* cache_data.get('expires_on', 0)
get_expires_on_or_forever(c) ==
    IF c.state = "no_expires_on" THEN (MaxTicks + 2) * TickLen + TOKEN_MARGIN
    ELSE c.expires_on

get_expires_on(c) == IF c.state = "no_expires_on" THEN 0 ELSE c.expires_on

\* the body of the try block: the token, None, or the exception it raises
read_cache(c, t) ==
    IF c.state = "unreadable" THEN "OSError"
    ELSE IF c.state = "garbage" THEN "JSONDecodeError"
    ELSE IF get_expires_on(c) > t + TOKEN_MARGIN
    THEN IF c.state = "no_access_token" THEN "KeyError" ELSE c.access_token
    ELSE Null

CacheErrors == {"OSError", "JSONDecodeError", "KeyError"}

load_cached_token(c, t) ==
    IF c.state = "missing" THEN Null
    ELSE IF read_cache(c, t) \in CacheErrors THEN Null
    ELSE read_cache(c, t)

\* _save_token_cache: the cache file written for token_result at time t
save_token_cache(token_result, t) ==
    LET expires_in == IF token_result.has_expires_in
                      THEN token_result.expires_in
                      ELSE DEFAULT_EXPIRES_IN
    IN  CacheEntry(token_result.access_token, t + expires_in - TOKEN_MARGIN)

\* ------------------------------------------------------------- remote API
StatusCodes == {HTTP_OK, HTTP_NO_CONTENT, 400}

\* parsed (or unparsable) JSON body of a response
NoneBody == [kind |-> "none", value |-> <<>>, field |-> Absent]
InvalidBody == [kind |-> "invalid", value |-> <<>>, field |-> Absent]
EmptyBody == [kind |-> "empty", value |-> <<>>, field |-> Absent]
CollectionBody(v) == [kind |-> "collection", value |-> v, field |-> Absent]
EntityBody(f) == [kind |-> "entity", value |-> <<>>, field |-> f]
ErrorBody == [kind |-> "error", value |-> <<>>, field |-> Absent]

\* the records of an entity set that match a query, in the order requested
Dataset(ep, m) == [i \in 1..m |-> ep \o "-" \o ToString(i)]

\* a conforming OData service answers at most $top records
ServerPage(ep, top, m) ==
    IF top = NoTop
    THEN Dataset(ep, m)
    ELSE Dataset(ep, Min(CHOOSE n \in top : TRUE, m))

TransportError == [kind |-> "error", status |-> 0, body |-> NoneBody,
                   matching |-> 0, header |-> <<>>]
HttpReply(s, b, m, h) == [kind |-> "http", status |-> s, body |-> b,
                          matching |-> m, header |-> h]
NoReply == [kind |-> "none", status |-> 0, body |-> NoneBody,
            matching |-> 0, header |-> <<>>]

\* OData-EntityId header values, as sequences of characters; a name other than
\* "(" and ")" stands for a run of characters that are not parentheses
EntityIdHeaders ==
    { <<>>,
      <<"url">>,
      <<"url", "(", "guid", ")">>,
      <<"url", "(", ")">>,
      <<"url", "(", "guid">>,
      <<"(", "tenant", ")", "url", "(", "guid", ")">>,
      <<"url", "(", "(", "guid", ")">> }

\* re.search(r'\(([^)]+)\)', entity_id).group(1), or <<>> when nothing matches:
\* the leftmost "(" that is followed by one or more characters other than ")"
\* and then a ")"
MatchAt(s, i) ==
    /\ s[i] = "("
    /\ \E j \in (i + 2)..Len(s) :
          /\ s[j] = ")"
          /\ \A k \in (i + 1)..(j - 1) : s[k] # ")"

GroupAt(s, i) ==
    LET j == CHOOSE j \in (i + 2)..Len(s) :
                 /\ s[j] = ")"
                 /\ \A k \in (i + 1)..(j - 1) : s[k] # ")"
    IN  SubSeq(s, i + 1, j - 1)

re_search_guid(s) ==
    IF \E i \in 1..Len(s) : MatchAt(s, i)
    THEN GroupAt(s, CHOOSE i \in 1..Len(s) :
                        MatchAt(s, i) /\ \A h \in 1..(i - 1) : ~MatchAt(s, h))
    ELSE <<>>

\* ------------------------------------------------------- domain operations
SearchOps == {"search_accounts", "search_contacts", "search_leads",
              "search_leads_by_date", "search_opportunities_by_name",
              "search_opportunities_by_date"}
CreateOps == {"create_lead", "create_opportunity"}
Ops == SearchOps \cup CreateOps
         \cup {"get_opportunities", "get_opportunity", "update_opportunity"}

DefaultArgs == [max_results |-> 0, subject_len |-> 0,
                has_description |-> FALSE, description_len |-> 0,
                account_term |-> Null, contact_term |-> Null,
                email |-> Null, xylos_leadsource |-> Null,
                estimated_close_date |-> Null,
                contract_verlengingen |-> "True",
                xylos_contractverlenging |-> Null,
                sca_alreadyplanned |-> Null]

Lens == {MAX_LEN, MAX_LEN + 1}
SearchTerms == {Null, "Acme"}

\* optional arguments of create_lead a caller can pass: <<description given,
\* email, xylos_leadsource>>; an integer or boolean value is written as its
\* text
LeadOptions == {<<FALSE, Null, Null>>, <<TRUE, "", "0">>,
                <<FALSE, "a@b.c", Null>>}

\* arguments of create_opportunity a caller can pass:
\* <<estimated_close_date, xylos_contractverlenging, sca_alreadyplanned,
\*   account_search_term, contact_search_term>>
OpportunityOptions ==
    {<<Null, Null, "False", "Acme", "Acme">>,
     <<"2026-12-31", "False", Null, "", "">>}

\* the argument combinations a caller can pass; the optional arguments of
\* create_lead vary on the calls without search terms
ArgsOf(o) ==
    IF o \in SearchOps \cup {"get_opportunities"}
    THEN {[DefaultArgs EXCEPT !.max_results = n] : n \in 0..MaxN}
    ELSE IF o = "create_lead"
    THEN {r \in {[DefaultArgs EXCEPT !.subject_len = l,
                                     !.has_description = x[1],
                                     !.description_len =
                                         IF x[1] THEN MAX_LEN + 1 ELSE 0,
                                     !.account_term = a, !.contact_term = c,
                                     !.email = x[2],
                                     !.xylos_leadsource = x[3]] :
                    l \in Lens, a \in SearchTerms, c \in SearchTerms,
                    x \in LeadOptions} :
             \/ r.account_term = Null /\ r.contact_term = Null
             \/ ~r.has_description /\ r.email = Null
                  /\ r.xylos_leadsource = Null}
    ELSE IF o = "create_opportunity"
    THEN {[DefaultArgs EXCEPT !.has_description = FALSE,
                              !.account_term = "Acme", !.contact_term = "Acme"]}
           \cup {[DefaultArgs EXCEPT !.has_description = TRUE,
                                     !.description_len = l,
                                     !.account_term = x[4],
                                     !.contact_term = x[5],
                                     !.estimated_close_date = x[1],
                                     !.xylos_contractverlenging = x[2],
                                     !.sca_alreadyplanned = x[3]] :
                l \in Lens, x \in OpportunityOptions}
    ELSE {DefaultArgs}

\* entity set a gateway call of operation o at stage st addresses
Endpoint(o, st) ==
    IF st = "acct" THEN "accounts"
    ELSE IF st = "cont" THEN "contacts"
    ELSE IF o = "search_accounts" THEN "accounts"
    ELSE IF o = "search_contacts" THEN "contacts"
    ELSE IF o \in {"search_leads", "search_leads_by_date", "create_lead"}
    THEN "leads"
    ELSE "opportunities"

\* business-key field of a created entity
IdField(o) ==
    IF o = "create_lead" THEN "xylos_leadidentifier" ELSE "xylos_opportunityid"

EmptyPayload == [k \in {} |-> Null]

Request(m, ep, key, top, sel, orderby, data) ==
    [m |-> m, ep |-> ep, key |-> key, top |-> top, sel |-> sel,
     orderby |-> orderby, data |-> data]

\* params of search_accounts
search_accounts_params_notop(max_results) ==
    Request("GET", "accounts", <<>>, NoTop,
            "accountid,name,emailaddress1,telephone1,address1_city,address1_country",
            "name", EmptyPayload)

search_accounts_params(max_results) ==
    Request("GET", "accounts", <<>>, {max_results},
            "accountid,name,emailaddress1,telephone1,address1_city,address1_country",
            "name", EmptyPayload)

\* params of search_contacts
search_contacts_params(max_results) ==
    Request("GET", "contacts", <<>>, {max_results},
            "contactid,fullname,emailaddress1,telephone1,jobtitle,_parentcustomerid_value",
            "fullname", EmptyPayload)

\* params of search_leads and of search_leads_by_date
search_leads_params(max_results) ==
    Request("GET", "leads", <<>>, {max_results},
            "leadid,subject,firstname,lastname,emailaddress1,telephone1,companyname,statuscode",
            "createdon desc", EmptyPayload)

\* params of search_opportunities_by_name and of search_opportunities_by_date
search_opportunities_params(max_results) ==
    Request("GET", "opportunities", <<>>, {max_results}, Absent, Absent,
            EmptyPayload)

\* params of get_opportunities
get_opportunities_params(top) ==
    Request("GET", "opportunities", <<>>, {top}, Absent, "createdon desc",
            EmptyPayload)

\* the GET that api_get sends for operation o at stage st
GetRequest_unlimited_lookup(o, st, a) ==
    IF st = "acct" THEN search_accounts_params(MaxRecords)
    ELSE IF st = "cont" THEN search_contacts_params(MaxRecords)
    ELSE IF o = "search_accounts" THEN search_accounts_params(a.max_results)
    ELSE IF o = "search_contacts" THEN search_contacts_params(a.max_results)
    ELSE IF o \in {"search_leads", "search_leads_by_date"}
    THEN search_leads_params(a.max_results)
    ELSE IF o \in {"search_opportunities_by_name",
                   "search_opportunities_by_date"}
    THEN search_opportunities_params(a.max_results)
    ELSE IF o = "get_opportunities" THEN get_opportunities_params(a.max_results)
    ELSE Request("GET", "opportunities", <<"opportunity_id">>, NoTop, Absent,
                 Absent, EmptyPayload)

GetRequest(o, st, a) ==
    IF st = "acct" THEN search_accounts_params(1)
    ELSE IF st = "cont" THEN search_contacts_params(1)
    ELSE IF o = "search_accounts" THEN search_accounts_params(a.max_results)
    ELSE IF o = "search_contacts" THEN search_contacts_params(a.max_results)
    ELSE IF o \in {"search_leads", "search_leads_by_date"}
    THEN search_leads_params(a.max_results)
    ELSE IF o \in {"search_opportunities_by_name",
                   "search_opportunities_by_date"}
    THEN search_opportunities_params(a.max_results)
    ELSE IF o = "get_opportunities" THEN get_opportunities_params(a.max_results)
    ELSE Request("GET", "opportunities", <<"opportunity_id">>, NoTop, Absent,
                 Absent, EmptyPayload)

\* answers the remote API can give to a GET
GetReplies(req) ==
    {TransportError}
      \cup {HttpReply(s, b, 0, <<>>) :
               s \in StatusCodes \ {HTTP_OK}, b \in {InvalidBody, ErrorBody}}
      \cup {HttpReply(HTTP_OK, InvalidBody, 0, <<>>),
            HttpReply(HTTP_OK, EmptyBody, 0, <<>>)}
      \cup (IF req.key = <<>>
            THEN {HttpReply(HTTP_OK,
                            CollectionBody(ServerPage(req.ep, req.top, m)),
                            m, <<>>) : m \in 0..MaxRecords}
            ELSE {HttpReply(HTTP_OK, EntityBody(f), 1, <<>>) :
                     f \in {Absent, Null, "KEY-042"}})

\* answers the remote API can give to a POST
PostReplies ==
    {TransportError}
      \cup {HttpReply(s, InvalidBody, 0, h) :
               s \in StatusCodes, h \in EntityIdHeaders}

\* answers the remote API can give to a PATCH
PatchReplies ==
    {TransportError}
      \cup {HttpReply(s, InvalidBody, 0, <<>>) : s \in StatusCodes}

\* ------------------------------------------------------------ HTTP gateway
\* the requests sent so far, after a gateway function has issued req with
\* requests.get / requests.post / requests.patch and has got r
send_again_on_failure(log, req, r) ==
    IF r.kind = "http" /\ r.status \in {HTTP_OK, HTTP_NO_CONTENT}
    THEN Append(log, req)
    ELSE Append(Append(log, req), req)

send(log, req, r) == Append(log, req)

\* return value of api_get for reply r: the parsed body, or None
api_get_any_status(r) ==
    IF r.kind = "http" /\ r.body.kind # "invalid" THEN r.body ELSE NoneBody

api_get(r) ==
    IF r.kind = "http" /\ r.status = HTTP_OK /\ r.body.kind # "invalid"
    THEN r.body
    ELSE NoneBody

\* api_post, first half: the GUID taken from the reply to the POST, or <<>>
\* when api_post returns None without refetching
api_post_guid_any_status(r) ==
    IF r.kind = "http" /\ r.header # <<>>
    THEN re_search_guid(r.header)
    ELSE <<>>

api_post_guid(r) ==
    IF r.kind = "http" /\ r.status = HTTP_NO_CONTENT /\ r.header # <<>>
    THEN re_search_guid(r.header)
    ELSE <<>>

\* return value of get_custom_entity_id for reply r to the refetch
get_custom_entity_id_or_guid(r, g) ==
    IF r.kind = "http" /\ r.status = HTTP_OK /\ r.body.kind # "invalid"
         /\ Truthy(r.body.field)
    THEN r.body.field
    ELSE "guid"

get_custom_entity_id(r, g) ==
    IF r.kind = "http" /\ r.status = HTTP_OK /\ r.body.kind # "invalid"
         /\ Truthy(r.body.field)
    THEN r.body.field
    ELSE Null

\* return value of api_patch for reply r
api_patch_any_2xx(r) ==
    r.kind = "http" /\ r.status \in {HTTP_OK, HTTP_NO_CONTENT}

api_patch(r) == r.kind = "http" /\ r.status = HTTP_NO_CONTENT

\* ------------------------------------------------- searches and formatting
\* truthiness of a dict-or-None value
TruthyJson(b) == b.kind \notin {"none", "empty"}

\* result.get('value', []) if result else []
value_or_empty(result) ==
    IF TruthyJson(result) /\ result.kind = "collection"
    THEN result.value
    ELSE <<>>

EntityType(ep) ==
    IF ep = "accounts" THEN "account"
    ELSE IF ep = "contacts" THEN "contact"
    ELSE IF ep = "leads" THEN "lead"
    ELSE "opportunity"

\* the list a search function returns for the api_get result
search_results(ep, result) ==
    LET records == value_or_empty(result)
    IN  [i \in 1..Len(records) |->
            [id |-> records[i], type |-> EntityType(ep)]]

Bullet == "  * entry"
IdLine == "    ID: id"

NoneFound(o) ==
    IF o = "search_accounts"
    THEN "No accounts found matching your search criteria."
    ELSE IF o = "search_contacts"
    THEN "No contacts found matching your search criteria."
    ELSE IF o \in {"search_leads", "search_leads_by_date"}
    THEN "No leads found matching your search criteria."
    ELSE IF o = "search_opportunities_by_name"
    THEN "No opportunities found matching 'search_term'."
    ELSE IF o = "search_opportunities_by_date"
    THEN "No opportunities found between start_date and end_date."
    ELSE "No opportunities found."

\* lines of the report of a search or list tool
format_output_no_empty_check(o, list) ==
    <<"Found n entries:">> \o [i \in 1..Len(list) |-> Bullet]

format_output(o, list) ==
    IF list = <<>>
    THEN <<NoneFound(o)>>
    ELSE <<"Found n entries:">>
           \o (IF o \in {"search_leads", "search_leads_by_date"}
               THEN [i \in 1..(2 * Len(list)) |->
                        IF i % 2 = 1 THEN Bullet ELSE IdLine]
               ELSE [i \in 1..Len(list) |-> Bullet])

\* lines of the report of get_opportunity_tool
get_opportunity_output(opportunity) ==
    IF ~TruthyJson(opportunity)
    THEN <<"Opportunity with ID 'opportunity_id' not found">>
    ELSE <<"Opportunity Details (ID: opportunity_id):", Bullet, Bullet, Bullet,
           Bullet, Bullet>>

\* lines of the report of update_opportunity_tool
update_opportunity_output(success) ==
    IF success
    THEN <<"Opportunity 'opportunity_id' updated successfully.">>
    ELSE <<"Failed to update opportunity 'opportunity_id'.">>

\* ----------------------------------------------------------------- results
NoResult == [kind |-> "none", list |-> <<>>, success |-> FALSE, id |-> Absent,
             message |-> Absent, linked_account_id |-> Absent,
             linked_contact_id |-> Absent, json |-> NoneBody]
ListResult(l) == [NoResult EXCEPT !.kind = "list", !.list = l]
JsonResult(b) == [NoResult EXCEPT !.kind = "json", !.json = b]
BoolResult(b) == [NoResult EXCEPT !.kind = "bool", !.success = b]

TooLongMessage == "Subject must be 40 characters or less. Current length: n"
TooLong == [NoResult EXCEPT !.kind = "dict", !.message = TooLongMessage]

\* ------------------------------------------------------------------ create
\* outcome of the length check of create_lead
create_lead_validate_off_by_one(a) ==
    IF a.subject_len > MAX_LEN + 1 THEN "too_long" ELSE "ok"

create_lead_validate(a) ==
    IF a.subject_len > MAX_LEN THEN "too_long" ELSE "ok"

\* outcome of the length check of create_opportunity: len(None) raises
create_opportunity_validate(a) ==
    IF ~a.has_description THEN "TypeError"
    ELSE IF a.description_len > MAX_LEN THEN "too_long"
    ELSE "ok"

Validate(o, a) ==
    IF o = "create_lead" THEN create_lead_validate(a)
    ELSE IF o = "create_opportunity" THEN create_opportunity_validate(a)
    ELSE "ok"

\* first gateway call of operation o
FirstStage_terms_optional(o, a) ==
    IF o = "update_opportunity" THEN "patch"
    ELSE IF o \in CreateOps
    THEN IF Truthy(a.account_term) THEN "acct"
         ELSE IF Truthy(a.contact_term) THEN "cont"
         ELSE "post"
    ELSE "get"

FirstStage(o, a) ==
    IF o = "update_opportunity" THEN "patch"
    ELSE IF o = "create_opportunity" THEN "acct"
    ELSE IF o = "create_lead"
    THEN IF Truthy(a.account_term) THEN "acct"
         ELSE IF Truthy(a.contact_term) THEN "cont"
         ELSE "post"
    ELSE "get"

\* gateway call that follows the account lookup of a create
AfterAccount_skipping_contact(o, a) == "post"

AfterAccount(o, a) ==
    IF o = "create_lead" /\ ~Truthy(a.contact_term) THEN "post" ELSE "cont"

\* resolved id: first element of the search result, or None
first_id(list) == IF list # <<>> THEN list[1].id ELSE Null

\* lead_data of create_lead
lead_data_all_keys(a, account_id, contact_id) ==
    LET keys == {"subject", "firstname", "lastname", "companyname",
                 "_parentaccountid_value", "_parentcontactid_value",
                 "emailaddress1", "description", "xylos_leadsource"}
    IN  [k \in keys |->
            IF k = "_parentaccountid_value" THEN account_id
            ELSE IF k = "_parentcontactid_value" THEN contact_id
            ELSE IF k = "emailaddress1" THEN a.email
            ELSE IF k = "xylos_leadsource" THEN a.xylos_leadsource
            ELSE "value"]

lead_data(a, account_id, contact_id) ==
    LET keys == {"subject", "firstname", "lastname", "companyname"}
                  \cup (IF Truthy(account_id)
                        THEN {"_parentaccountid_value"} ELSE {})
                  \cup (IF Truthy(contact_id)
                        THEN {"_parentcontactid_value"} ELSE {})
                  \cup (IF Truthy(a.email) THEN {"emailaddress1"} ELSE {})
                  \cup (IF a.has_description /\ a.description_len > 0
                        THEN {"description"} ELSE {})
                  \cup (IF a.xylos_leadsource # Null
                        THEN {"xylos_leadsource"} ELSE {})
    IN  [k \in keys |->
            IF k = "_parentaccountid_value" THEN account_id
            ELSE IF k = "_parentcontactid_value" THEN contact_id
            ELSE IF k = "emailaddress1" THEN a.email
            ELSE IF k = "xylos_leadsource" THEN a.xylos_leadsource
            ELSE "value"]

\* value of key k of the data of create_opportunity
opportunity_value(a, account_id, contact_id, k) ==
    IF k = "customerid_account@odata.bind"
    THEN "/accounts(" \o account_id \o ")"
    ELSE IF k = "parentcontactid@odata.bind"
    THEN "/contacts(" \o contact_id \o ")"
    ELSE IF k = "description" /\ ~a.has_description THEN Null
    ELSE IF k = "estimatedclosedate" THEN a.estimated_close_date
    ELSE IF k = "xylos_contractverlenging"
    THEN IF a.xylos_contractverlenging # Null
         THEN a.xylos_contractverlenging
         ELSE a.contract_verlengingen
    ELSE IF k = "sca_alreadyplanned" THEN a.sca_alreadyplanned
    ELSE "value"

\* keys of the data of create_opportunity that come from its arguments
opportunity_keys(a) ==
    {"name", "description", "xylos_contractverlenging"}
      \cup (IF Truthy(a.estimated_close_date)
            THEN {"estimatedclosedate"} ELSE {})
      \cup (IF a.sca_alreadyplanned # Null THEN {"sca_alreadyplanned"} ELSE {})

\* data of create_opportunity
opportunity_data_always_bind(a, account_id, contact_id) ==
    [k \in opportunity_keys(a)
             \cup {"customerid_account@odata.bind",
                   "parentcontactid@odata.bind"} |->
        opportunity_value(a, account_id, contact_id, k)]

opportunity_data(a, account_id, contact_id) ==
    [k \in opportunity_keys(a)
             \cup (IF Truthy(account_id)
                   THEN {"customerid_account@odata.bind"} ELSE {})
             \cup (IF Truthy(contact_id)
                   THEN {"parentcontactid@odata.bind"} ELSE {}) |->
        opportunity_value(a, account_id, contact_id, k)]

Payload(o, a, account_id, contact_id) ==
    IF o = "create_lead"
    THEN lead_data(a, account_id, contact_id)
    ELSE opportunity_data(a, account_id, contact_id)

AccountKeys == {"_parentaccountid_value", "customerid_account@odata.bind"}

\* result dict of create_lead / create_opportunity for the api_post value
create_result(o, key, account_id, contact_id) ==
    IF Truthy(key)
    THEN IF o = "create_lead"
         THEN [NoResult EXCEPT !.kind = "dict", !.success = TRUE, !.id = key,
                               !.message = "Lead 'subject' created successfully"]
         ELSE [NoResult EXCEPT !.kind = "dict", !.success = TRUE, !.id = key,
                               !.message = "Opportunity 'name' created successfully",
                               !.linked_account_id = account_id,
                               !.linked_contact_id = contact_id]
    ELSE [NoResult EXCEPT !.kind = "dict",
                          !.message = IF o = "create_lead"
                                      THEN "Failed to create lead 'subject'"
                                      ELSE "Failed to create opportunity 'name'"]

\* lines of the report of create_lead_tool / create_opportunity_tool
create_output(o, res) ==
    IF o = "create_lead"
    THEN IF res.success
         THEN <<"Lead created successfully with ID: " \o res.id>>
         ELSE <<"Error creating lead: " \o res.message>>
    ELSE IF res.success
         THEN <<res.message, "Opportunity ID: " \o res.id>>
                \o (IF Truthy(res.linked_account_id)
                    THEN <<"Linked Account ID: " \o res.linked_account_id>>
                    ELSE <<>>)
                \o (IF Truthy(res.linked_contact_id)
                    THEN <<"Linked Contact ID: " \o res.linked_contact_id>>
                    ELSE <<>>)
         ELSE <<res.message>>

\* ------------------------------------------------------------------- state
VARIABLES
    authMode,    \* AUTH_MODE
    cache,       \* content of token_cache.json
    now,         \* time.time()
    op,          \* the tool call in progress
    args,        \* its arguments
    stage,       \* the gateway call it has reached
    phase,       \* position inside that gateway call
    hdrToken,    \* bearer token of the headers built for the next request
    acq,         \* the token acquisition of the current gateway call
    nacq,        \* get_access_token calls of this tool call
    nflow,       \* interactive flows started by this tool call
    nexch,       \* client-credential exchanges made by this tool call
    authFailed,  \* some token acquisition of this tool call failed
    reqs,        \* HTTP requests this tool call has sent, in order
    resp,        \* reply to the latest request
    post,        \* reply to the POST of this tool call
    guid,        \* GUID api_post took from the OData-EntityId header
    acct,        \* resolved_account_id
    cont,        \* resolved_contact_id
    gw,          \* the latest gateway call that has finished
    result,      \* return value of the domain function
    raised,      \* exception that left the tool call
    report,      \* lines of the string the tool returns
    tm,          \* concurrent callers of get_access_token: where each one is
    lastSave     \* the latest interactive flow whose token was cached

vars == <<authMode, cache, now, op, args, stage, phase, hdrToken, acq, nacq,
          nflow, authFailed, reqs, resp, post, guid, acct, cont, gw, result,
          raised, report, tm, nexch, lastSave>>

NoAcq == [active |-> FALSE, cacheAtLoad |-> MissingCache, loadTime |-> 0,
          flowRan |-> FALSE, flowToken |-> Absent]

NoGw == [fn |-> "none", outcome |-> "none", reply |-> NoReply,
         json |-> NoneBody, key |-> Null, ok |-> FALSE]
GwGet(b, r) == [NoGw EXCEPT !.fn = "api_get", !.outcome = "returned",
                            !.reply = r, !.json = b]
GwPost(k, r) == [NoGw EXCEPT !.fn = "api_post", !.outcome = "returned",
                             !.reply = r, !.key = k]
GwPatch(b, r) == [NoGw EXCEPT !.fn = "api_patch", !.outcome = "returned",
                              !.reply = r, !.ok = b]
GwRaised(f) == [NoGw EXCEPT !.fn = f, !.outcome = "raised"]

GatewayFn(st) ==
    IF st \in {"get", "acct", "cont"} THEN "api_get"
    ELSE IF st = "patch" THEN "api_patch"
    ELSE "api_post"

\* two tool calls that the host runs at the same time
Callers == {1, 2}
NoCaller == [pc |-> "idle", token |-> Absent, token_result |-> AuthFailure,
             cache_data |-> MissingCache, overlapped |-> FALSE,
             readWhileWritten |-> FALSE]

\* time and token_result of a _save_token_cache call
NoSave == [valid |-> FALSE, time |-> 0, lifetime |-> 0, token |-> Absent]
Saved(token_result, t) ==
    [valid |-> TRUE, time |-> t,
     lifetime |-> IF token_result.has_expires_in
                  THEN token_result.expires_in
                  ELSE DEFAULT_EXPIRES_IN,
     token |-> token_result.access_token]

InitCaches == {MissingCache, GarbageCache, UnreadableCache,
               NoTokenCache(600), NoExpiryCache("tok-A"),
               CacheEntry("tok-A", 150), CacheEntry("tok-A", 600)}

Init ==
    /\ authMode \in AuthModes
    /\ cache \in InitCaches
    /\ now = 0
    /\ op = "none"
    /\ args = DefaultArgs
    /\ stage = "idle"
    /\ phase = "-"
    /\ hdrToken = Absent
    /\ acq = NoAcq
    /\ nacq = 0
    /\ nflow = 0
    /\ nexch = 0
    /\ authFailed = FALSE
    /\ reqs = <<>>
    /\ resp = NoReply
    /\ post = NoReply
    /\ guid = <<>>
    /\ acct = Null
    /\ cont = Null
    /\ gw = NoGw
    /\ result = NoResult
    /\ raised = "none"
    /\ report = <<>>
    /\ tm = [c \in Callers |-> NoCaller]
    /\ lastSave = NoSave

\* ----------------------------------------------------------------- actions
\* a tool is called: the domain function runs up to its first gateway call
Invoke ==
    /\ stage = "idle"
    /\ \E o \in Ops : \E a \in ArgsOf(o) :
          /\ op' = o
          /\ args' = a
          /\ LET v == Validate(o, a)
             IN  IF v = "ok"
                 THEN /\ stage' = FirstStage(o, a)
                      /\ phase' = "headers"
                      /\ result' = NoResult
                      /\ report' = <<>>
                      /\ raised' = "none"
                 ELSE IF v = "too_long"
                 THEN /\ stage' = "done"
                      /\ phase' = "-"
                      /\ result' = TooLong
                      /\ report' = create_output(o, TooLong)
                      /\ raised' = "none"
                 ELSE /\ stage' = "done"
                      /\ phase' = "-"
                      /\ result' = NoResult
                      /\ report' = <<>>
                      /\ raised' = v
    /\ UNCHANGED <<tm, lastSave, nexch, authMode, cache, now, hdrToken, acq,
                   nacq, nflow, authFailed, reqs, resp, post, guid, acct, cont,
                   gw>>

\* get_headers has its token: the request can be sent
TokenAcquired(t) ==
    /\ hdrToken' = t
    /\ phase' = "send"
    /\ UNCHANGED <<stage, authFailed, gw, result, report, raised>>

\* get_access_token raises.  Inside get_custom_entity_id the call is within
\* the try block: the exception is caught there and api_post returns None.
\* In api_get, api_post and api_patch get_headers is called before the try
\* block: the exception leaves the gateway and the domain function.
TokenRefused ==
    /\ hdrToken' = Absent
    /\ authFailed' = TRUE
    /\ phase' = "-"
    /\ stage' = "done"
    /\ IF stage = "refetch"
       THEN /\ gw' = GwPost(Null, post)
            /\ result' = create_result(op, Null, acct, cont)
            /\ report' = create_output(op, create_result(op, Null, acct, cont))
            /\ raised' = "none"
       ELSE /\ gw' = GwRaised(GatewayFn(stage))
            /\ result' = NoResult
            /\ report' = <<>>
            /\ raised' = "auth"

\* _get_service_account_token: one client-credential exchange
AcquireServiceToken_with_cache ==
    /\ phase = "headers"
    /\ authMode = "service_account"
    /\ nacq' = nacq + 1
    /\ IF Truthy(load_cached_token(cache, now))
       THEN /\ nexch' = nexch
            /\ cache' = cache
            /\ TokenAcquired(load_cached_token(cache, now))
       ELSE /\ nexch' = nexch + 1
            /\ \E r \in {AuthFailure}
                          \cup {AuthSuccess(t, TRUE, 900) : t \in Tokens} :
                  IF r.has_token
                  THEN /\ cache' = save_token_cache(r, now)
                       /\ TokenAcquired(r.access_token)
                  ELSE /\ cache' = cache
                       /\ TokenRefused
    /\ UNCHANGED <<tm, lastSave, authMode, now, op, args, acq, nflow, reqs,
                   resp, post, guid, acct, cont>>

AcquireServiceToken ==
    /\ phase = "headers"
    /\ authMode = "service_account"
    /\ nacq' = nacq + 1
    /\ nexch' = nexch + 1
    /\ \E r \in {AuthFailure} \cup {AuthSuccess(t, TRUE, 900) : t \in Tokens} :
          IF r.has_token THEN TokenAcquired(r.access_token) ELSE TokenRefused
    /\ UNCHANGED <<tm, lastSave, authMode, cache, now, op, args, acq, nflow,
                   reqs, resp, post, guid, acct, cont>>

\* _get_interactive_token, up to the interactive flow
LoadCachedToken ==
    /\ phase = "headers"
    /\ authMode = "interactive"
    /\ nacq' = nacq + 1
    /\ acq' = [NoAcq EXCEPT !.active = TRUE, !.cacheAtLoad = cache,
                            !.loadTime = now]
    /\ LET cached_token == load_cached_token(cache, now)
       IN  IF Truthy(cached_token)
           THEN TokenAcquired(cached_token)
           ELSE /\ phase' = "flow"
                /\ UNCHANGED <<hdrToken, stage, authFailed, gw, result, report,
                               raised>>
    /\ UNCHANGED <<tm, lastSave, nexch, authMode, cache, now, op, args, nflow,
                   reqs, resp, post, guid, acct, cont>>

\* _get_interactive_token: the interactive flow ends
InteractiveFlow ==
    /\ phase = "flow"
    /\ nflow' = nflow + 1
    /\ \E r \in AuthResults :
          IF r.has_token
          THEN /\ cache' = save_token_cache(r, now)
               /\ lastSave' = Saved(r, now)
               /\ acq' = [acq EXCEPT !.flowRan = TRUE,
                                     !.flowToken = r.access_token]
               /\ TokenAcquired(r.access_token)
          ELSE /\ cache' = cache
               /\ lastSave' = lastSave
               /\ acq' = [acq EXCEPT !.flowRan = TRUE]
               /\ TokenRefused
    /\ UNCHANGED <<tm, nexch, authMode, now, op, args, nacq, reqs, resp, post,
                   guid, acct, cont>>

\* api_get sends its GET; the caller continues with the return value
ApiGet ==
    /\ stage \in {"get", "acct", "cont"}
    /\ phase = "send"
    /\ LET req == GetRequest(op, stage, args)
       IN  \E r \in GetReplies(req) :
              LET res == api_get(r)
                  list == search_results(req.ep, res)
              IN  /\ reqs' = send(reqs, req, r)
                  /\ resp' = r
                  /\ gw' = GwGet(res, r)
                  /\ IF stage = "acct"
                     THEN /\ acct' = first_id(list)
                          /\ stage' = AfterAccount(op, args)
                          /\ phase' = "headers"
                          /\ UNCHANGED <<cont, result, report>>
                     ELSE IF stage = "cont"
                     THEN /\ cont' = first_id(list)
                          /\ stage' = "post"
                          /\ phase' = "headers"
                          /\ UNCHANGED <<acct, result, report>>
                     ELSE /\ stage' = "done"
                          /\ phase' = "-"
                          /\ UNCHANGED <<acct, cont>>
                          /\ IF op = "get_opportunity"
                             THEN /\ result' = JsonResult(res)
                                  /\ report' = get_opportunity_output(res)
                             ELSE /\ result' = ListResult(list)
                                  /\ report' = format_output(op, list)
    /\ hdrToken' = Absent
    /\ acq' = NoAcq
    /\ UNCHANGED <<tm, lastSave, nexch, authMode, cache, now, op, args, nacq,
                   nflow, authFailed, post, guid, raised>>

\* api_post returns key to create_lead / create_opportunity
FinishCreate(key, r) ==
    /\ gw' = GwPost(key, r)
    /\ result' = create_result(op, key, acct, cont)
    /\ report' = create_output(op, create_result(op, key, acct, cont))
    /\ stage' = "done"
    /\ phase' = "-"

\* api_post sends its POST
ApiPost_reusing_headers ==
    /\ stage = "post"
    /\ phase = "send"
    /\ \E r \in PostReplies :
          /\ reqs' = send(reqs,
                          Request("POST", Endpoint(op, stage), <<>>, NoTop,
                                  Absent, Absent,
                                  Payload(op, args, acct, cont)),
                          r)
          /\ resp' = r
          /\ post' = r
          /\ guid' = api_post_guid(r)
          /\ IF api_post_guid(r) # <<>>
             THEN /\ stage' = "refetch"
                  /\ phase' = "send"
                  /\ UNCHANGED <<gw, result, report>>
             ELSE FinishCreate(Null, r)
    /\ hdrToken' = hdrToken
    /\ acq' = NoAcq
    /\ UNCHANGED <<tm, lastSave, nexch, authMode, cache, now, op, args, nacq,
                   nflow, authFailed, acct, cont, raised>>

ApiPost ==
    /\ stage = "post"
    /\ phase = "send"
    /\ \E r \in PostReplies :
          /\ reqs' = send(reqs,
                          Request("POST", Endpoint(op, stage), <<>>, NoTop,
                                  Absent, Absent,
                                  Payload(op, args, acct, cont)),
                          r)
          /\ resp' = r
          /\ post' = r
          /\ guid' = api_post_guid(r)
          /\ IF api_post_guid(r) # <<>>
             THEN /\ stage' = "refetch"
                  /\ phase' = "headers"
                  /\ UNCHANGED <<gw, result, report>>
             ELSE FinishCreate(Null, r)
    /\ hdrToken' = Absent
    /\ acq' = NoAcq
    /\ UNCHANGED <<tm, lastSave, nexch, authMode, cache, now, op, args, nacq,
                   nflow, authFailed, acct, cont, raised>>

\* get_custom_entity_id sends the follow-up GET
GetCustomEntityId ==
    /\ stage = "refetch"
    /\ phase = "send"
    /\ LET req == Request("GET", Endpoint(op, stage), guid, NoTop, IdField(op),
                          Absent, EmptyPayload)
       IN  \E r \in GetReplies(req) :
              /\ reqs' = send(reqs, req, r)
              /\ resp' = r
              /\ FinishCreate(get_custom_entity_id(r, guid), post)
    /\ hdrToken' = Absent
    /\ acq' = NoAcq
    /\ UNCHANGED <<tm, lastSave, nexch, authMode, cache, now, op, args, nacq,
                   nflow, authFailed, post, guid, acct, cont, raised>>

\* api_patch sends its PATCH
ApiPatch ==
    /\ stage = "patch"
    /\ phase = "send"
    /\ \E r \in PatchReplies :
          /\ reqs' = send(reqs,
                          Request("PATCH", "opportunities",
                                  <<"opportunity_id">>, NoTop, Absent, Absent,
                                  [k \in {"updates"} |-> "value"]),
                          r)
          /\ resp' = r
          /\ gw' = GwPatch(api_patch(r), r)
          /\ result' = BoolResult(api_patch(r))
          /\ report' = update_opportunity_output(api_patch(r))
    /\ stage' = "done"
    /\ phase' = "-"
    /\ hdrToken' = Absent
    /\ acq' = NoAcq
    /\ UNCHANGED <<tm, lastSave, nexch, authMode, cache, now, op, args, nacq,
                   nflow, authFailed, post, guid, acct, cont, raised>>

\* the tool call has ended; the process waits for the next one
Return ==
    /\ stage = "done"
    /\ op' = "none"
    /\ args' = DefaultArgs
    /\ stage' = "idle"
    /\ phase' = "-"
    /\ hdrToken' = Absent
    /\ acq' = NoAcq
    /\ nacq' = 0
    /\ nflow' = 0
    /\ nexch' = 0
    /\ authFailed' = FALSE
    /\ reqs' = <<>>
    /\ resp' = NoReply
    /\ post' = NoReply
    /\ guid' = <<>>
    /\ acct' = Null
    /\ cont' = Null
    /\ gw' = NoGw
    /\ result' = NoResult
    /\ raised' = "none"
    /\ report' = <<>>
    /\ UNCHANGED <<tm, lastSave, authMode, cache, now>>

\* time passes
Tick ==
    /\ now < MaxTicks * TickLen
    /\ now' = now + TickLen
    /\ UNCHANGED <<tm, lastSave, nexch, authMode, cache, op, args, stage,
                   phase, hdrToken, acq, nacq, nflow, authFailed, reqs, resp,
                   post, guid, acct, cont, gw, result, raised, report>>

Next ==
    \/ Invoke
    \/ AcquireServiceToken
    \/ LoadCachedToken
    \/ InteractiveFlow
    \/ ApiGet
    \/ ApiPost
    \/ GetCustomEntityId
    \/ ApiPatch
    \/ Return
    \/ Tick

Spec == Init /\ [][Next]_vars

\* ------------------------------------------- concurrent token acquisition
\* The token manager is one process-wide object and one cache file; nothing
\* in it excludes a second caller.  Each caller runs _get_interactive_token
\* step by step: read the cache file, run the interactive flow, open the cache
\* file for writing (which truncates it), dump the new entry.
ToolCallVars == <<op, args, stage, phase, hdrToken, acq, nacq, nflow,
                  nexch, lastSave, authFailed, reqs, resp, post, guid, acct,
                  cont, gw, result, raised, report>>

Writing(c) == tm[c].pc = "dump"

\* get_headers of a tool call calls get_access_token
CallerGetAccessToken ==
    /\ \E c \in Callers :
          /\ tm[c].pc = "idle"
          /\ tm' = [tm EXCEPT ![c].pc = "load"]
    /\ UNCHANGED <<authMode, cache, now>>
    /\ UNCHANGED ToolCallVars

\* _load_cached_token: a file that another caller has truncated and not yet
\* written does not parse, and the bare except turns that into None
CallerLoadCachedToken ==
    /\ \E c \in Callers :
          /\ tm[c].pc = "load"
          /\ LET cached_token == load_cached_token(cache, now)
                 raced == \E d \in Callers \ {c} : Writing(d)
             IN  tm' = [tm EXCEPT
                          ![c].readWhileWritten = raced,
                          ![c].token = IF Truthy(cached_token)
                                       THEN cached_token ELSE Absent,
                          ![c].pc = IF Truthy(cached_token)
                                    THEN "returned" ELSE "flow"]
    /\ UNCHANGED <<authMode, cache, now>>
    /\ UNCHANGED ToolCallVars

\* acquire_token_interactive returns
CallerInteractiveFlow ==
    /\ \E c \in Callers :
          /\ tm[c].pc = "flow"
          /\ \E r \in AuthResults :
                tm' = [tm EXCEPT ![c].token_result = r,
                                 ![c].pc = IF r.has_token
                                           THEN "save" ELSE "raised"]
    /\ UNCHANGED <<authMode, cache, now>>
    /\ UNCHANGED ToolCallVars

\* _save_token_cache up to open(file, 'w'): the entry is computed and the file
\* is truncated
CallerOpenCacheFile ==
    /\ \E c \in Callers :
          /\ tm[c].pc = "save"
          /\ tm' = [d \in Callers |->
                      IF d = c
                      THEN [tm[c] EXCEPT
                              !.cache_data =
                                  save_token_cache(tm[c].token_result, now),
                              !.overlapped =
                                  \E e \in Callers \ {c} : Writing(e),
                              !.pc = "dump"]
                      ELSE IF Writing(d)
                      THEN [tm[d] EXCEPT !.overlapped = TRUE]
                      ELSE tm[d]]
    /\ cache' = GarbageCache
    /\ UNCHANGED <<authMode, now>>
    /\ UNCHANGED ToolCallVars

\* json.dump and close: the entry is in the file, unless another caller had the
\* file open for writing at the same time; then the bytes of the two writers
\* can mix
CallerDumpCache ==
    /\ \E c \in Callers :
          /\ tm[c].pc = "dump"
          /\ cache' \in {tm[c].cache_data}
                          \cup (IF tm[c].overlapped THEN {GarbageCache} ELSE {})
          /\ tm' = [tm EXCEPT ![c].token = tm[c].token_result.access_token,
                              ![c].pc = "returned"]
    /\ UNCHANGED <<authMode, now>>
    /\ UNCHANGED ToolCallVars

\* get_access_token has returned or raised; the caller goes on
CallerReturn ==
    /\ \E c \in Callers :
          /\ tm[c].pc \in {"returned", "raised"}
          /\ tm' = [tm EXCEPT ![c] = NoCaller]
    /\ UNCHANGED <<authMode, cache, now>>
    /\ UNCHANGED ToolCallVars

InitConcurrent == Init /\ authMode = "interactive"

NextConcurrent ==
    \/ CallerGetAccessToken
    \/ CallerLoadCachedToken
    \/ CallerInteractiveFlow
    \/ CallerOpenCacheFile
    \/ CallerDumpCache
    \/ CallerReturn
    \/ Tick

SpecConcurrent == InitConcurrent /\ [][NextConcurrent]_vars

\* ================================================================== claims
Fresh(a) ==
    /\ a.active
    /\ a.cacheAtLoad.state = "entry"
    /\ a.cacheAtLoad.expires_on > a.loadTime + 300

Stale(a) ==
    /\ a.active
    /\ a.cacheAtLoad.state = "entry"
    /\ a.cacheAtLoad.expires_on < a.loadTime + 300

\* C1: under the interactive strategy, a get_access_token call that finds a
\* cached token expiring more than 300 s after the current time returns that
\* token, starts no interactive flow and leaves the cache file alone; a call
\* that finds a cached token expiring in under 300 s runs the interactive flow
\* and, when it returns, returns the token of that flow and has overwritten the
\* cache file with it.
C1_TokenCaching ==
    authMode = "interactive" =>
        /\ Fresh(acq) =>
              /\ phase = "send"
              /\ hdrToken = acq.cacheAtLoad.access_token
              /\ ~acq.flowRan
              /\ cache = acq.cacheAtLoad
        /\ Stale(acq) =>
              /\ phase # "flow" => acq.flowRan
              /\ phase = "send" =>
                    /\ hdrToken = acq.flowToken
                    /\ cache.state = "entry"
                    /\ cache.access_token = acq.flowToken

C1_Witness ==
    /\ authMode = "interactive"
    /\ Stale(acq)
    /\ acq.cacheAtLoad.expires_on > acq.loadTime
    /\ phase = "send"
    /\ hdrToken # acq.cacheAtLoad.access_token
    /\ cache.access_token = hdrToken

\* the header is <prefix>(<guid>) with no other parenthesis
SimpleEntityId(h) ==
    /\ Len(h) >= 3
    /\ h[Len(h)] = ")"
    /\ \E i \in 1..(Len(h) - 2) :
          /\ h[i] = "("
          /\ \A k \in 1..(Len(h) - 1) : k # i => h[k] \notin {"(", ")"}

GuidOf(h) ==
    LET i == CHOOSE i \in 1..Len(h) : h[i] = "(" IN SubSeq(h, i + 1, Len(h) - 1)

\* the follow-up GETs among the requests: GETs on <entity_set>(g)
FollowUps(g) ==
    {i \in 1..Len(reqs) :
        /\ reqs[i].m = "GET"
        /\ reqs[i].ep = Endpoint(op, "post")
        /\ reqs[i].key = g}

\* C2: when the POST of api_post is answered 204 with an OData-EntityId header
\* carrying the parenthesised GUID g, api_post issues exactly one follow-up GET
\* on <entity_set>(g) selecting only id_field, and if that GET is answered 200
\* with a value v for id_field, api_post returns v.
C2_CreateRoundTrip ==
    (/\ gw.fn = "api_post"
     /\ gw.outcome = "returned"
     /\ post.kind = "http"
     /\ post.status = 204
     /\ SimpleEntityId(post.header)) =>
        /\ Cardinality(FollowUps(GuidOf(post.header))) = 1
        /\ \A i \in FollowUps(GuidOf(post.header)) :
              /\ i = Len(reqs)
              /\ reqs[i].sel = IdField(op)
              /\ (/\ resp.kind = "http"
                  /\ resp.status = 200
                  /\ resp.body.kind = "entity"
                  /\ Truthy(resp.body.field)) => gw.key = resp.body.field

\* C3: for every status of the reply to the POST other than 204, and for
\* every transport error on the POST, api_post returns null and no follow-up
\* GET is issued.
C3_PostFailureReturnsNull ==
    (/\ post.kind # "none"
     /\ ~(post.kind = "http" /\ post.status = 204)) =>
        /\ gw.fn = "api_post"
        /\ gw.outcome = "returned"
        /\ gw.key = Null
        /\ reqs[Len(reqs)].m = "POST"
        /\ \A i \in 1..Len(reqs) : reqs[i].key = <<>>
        /\ stage = "done"
        /\ ~result.success

C3_Witness ==
    /\ post.kind = "http"
    /\ post.status = 200
    /\ SimpleEntityId(post.header)
    /\ gw.fn = "api_post"
    /\ gw.key = Null

\* the validated text field of the call is longer than 40 characters
OverLong ==
    \/ op = "create_lead" /\ args.subject_len > 40
    \/ op = "create_opportunity" /\ args.has_description
         /\ args.description_len > 40

\* C4: a create_lead call whose subject, or a create_opportunity call whose
\* description, is longer than 40 characters returns a result with success =
\* false and the message about the 40-character limit, without any network
\* call: no token acquisition, no account or contact search, no POST.
C4_TooLongRejectedLocally ==
    OverLong =>
        /\ stage = "done"
        /\ raised = "none"
        /\ result.kind = "dict"
        /\ ~result.success
        /\ result.message = "Subject must be 40 characters or less. Current length: n"
        /\ reqs = <<>>
        /\ nacq = 0
        /\ nflow = 0

C4_Witness ==
    /\ op = "create_lead"
    /\ args.subject_len = 41
    /\ Truthy(args.account_term)
    /\ stage = "done"
    /\ ~result.success

\* C5: the length validation of create_lead and create_opportunity never
\* raises: for every argument combination, a call that omits the optional
\* description included, the call passes validation or returns a structured
\* failure result.
C5_ValidationNeverRaises ==
    op \in CreateOps => raised # "TypeError"

\* the account search of the create call has returned, with zero matches
AccountUnresolved ==
    /\ op \in CreateOps
    /\ \E i \in 1..Len(reqs) : reqs[i].m = "GET" /\ reqs[i].ep = "accounts"
    /\ stage # "acct"
    /\ acct = Null

Posts == {i \in 1..Len(reqs) : reqs[i].m = "POST"}

\* C6: a create call whose account search returns zero matches still issues
\* the POST, without an account binding (the call ends without a POST only
\* when a token acquisition raises), and when the contact resolves and the
\* gateway create returns a business key the result has success = true with
\* linked_account_id absent or null.
C6_SoftFailResolution ==
    AccountUnresolved =>
        /\ raised \in {"none", "auth"}
        /\ (stage = "done" /\ raised = "none") => Posts # {}
        /\ \A i \in Posts : DOMAIN reqs[i].data \cap AccountKeys = {}
        /\ (/\ stage = "done"
            /\ Truthy(cont)
            /\ gw.fn = "api_post"
            /\ Truthy(gw.key)) => result.success
        /\ result.success => result.linked_account_id \in {Null, Absent}

C6_Witness ==
    /\ AccountUnresolved
    /\ op = "create_opportunity"
    /\ Truthy(cont)
    /\ stage = "done"
    /\ result.success
    /\ result.linked_account_id = Null
    /\ result.linked_contact_id = cont

Bullets(lines) == Cardinality({i \in 1..Len(lines) : lines[i] = Bullet})

NothingFound ==
    \/ resp.kind = "error"
    \/ resp.kind = "http" /\ resp.status # 200
    \/ resp.kind = "http" /\ resp.status = 200 /\ resp.matching = 0

\* C8: every search operation returns a list, never null: the empty list when
\* the server matches zero records and when the GET fails (non-200 status or
\* transport error), and the tool then returns the "No <type> found..."
\* report.
C8_SearchNeverNull ==
    (op \in SearchOps /\ stage = "done" /\ raised = "none") =>
        /\ result.kind = "list"
        /\ NothingFound =>
              /\ result.list = <<>>
              /\ Len(report) = 1
              /\ report[1] \in
                    {"No accounts found matching your search criteria.",
                     "No contacts found matching your search criteria.",
                     "No leads found matching your search criteria.",
                     "No opportunities found matching 'search_term'.",
                     "No opportunities found between start_date and end_date."}

C8_Witness ==
    /\ op = "search_leads"
    /\ stage = "done"
    /\ resp.kind = "http"
    /\ resp.status = 400
    /\ result.list = <<>>
    /\ report = <<"No leads found matching your search criteria.">>

\* C9 as stated: api_get returns the parsed JSON body exactly when the status
\* of the reply is 200, null otherwise, and never raises to its caller.
C9_Original ==
    gw.fn = "api_get" =>
        /\ gw.outcome = "returned"
        /\ (gw.reply.kind = "http" /\ gw.reply.status = 200)
              => gw.json = gw.reply.body /\ gw.json.kind \notin {"none", "invalid"}
        /\ ~(gw.reply.kind = "http" /\ gw.reply.status = 200)
              => gw.json = NoneBody

\* C9: api_get returns the parsed JSON body when the status of the reply is
\* 200 and the body parses as JSON, and null on any other status, on a
\* transport error and on an unparsable body; it raises to its caller only
\* when the token acquisition of get_headers fails, before any request is
\* sent, and never because of the HTTP outcome.
C9_ApiGet ==
    gw.fn = "api_get" =>
        /\ gw.outcome = "raised" =>
              /\ authFailed
              /\ raised = "auth"
              /\ gw.reply = NoReply
        /\ gw.outcome = "returned" =>
              /\ gw.reply.kind \in {"http", "error"}
              /\ IF /\ gw.reply.kind = "http"
                    /\ gw.reply.status = 200
                    /\ gw.reply.body.kind # "invalid"
                 THEN gw.json = gw.reply.body
                 ELSE gw.json = NoneBody
        /\ raised \in {"none", "auth"}

C9_Witness ==
    /\ gw.fn = "api_get"
    /\ gw.outcome = "returned"
    /\ gw.reply.kind = "http"
    /\ gw.reply.status = 400
    /\ gw.reply.body.kind = "error"
    /\ gw.json = NoneBody

\* C10: an authentication failure at any token acquisition inside a gateway
\* operation (get, create with its follow-up GET, patch) is raised to the
\* caller of that operation, never turned into a null/false/empty result.
C10_AuthFailureRaised ==
    authFailed => raised = "auth" /\ gw.outcome = "raised"

\* C11: provided authentication succeeds, every tool call returns a string,
\* whatever the statuses and transport errors of its gateway calls; no
\* exception reaches the caller of the tool.
C11_ToolReturnsString ==
    (stage = "done" /\ ~authFailed) => raised = "none" /\ report # <<>>

\* C12: api_patch, and update_opportunity which returns its value, return
\* true if and only if the status of the reply to the PATCH is 204; every
\* other status and every transport error gives false.
C12_PatchTrueIff204 ==
    (gw.fn = "api_patch" /\ gw.outcome = "returned") =>
        /\ gw.reply.kind \in {"http", "error"}
        /\ gw.ok <=> (gw.reply.kind = "http" /\ gw.reply.status = 204)
        /\ result.kind = "bool"
        /\ result.success = gw.ok
        /\ op = "update_opportunity"

C12_Witness ==
    /\ op = "update_opportunity"
    /\ gw.fn = "api_patch"
    /\ gw.reply.kind = "http"
    /\ gw.reply.status = 200
    /\ ~gw.ok
    /\ ~result.success

\* the requests of a kind among the requests of the tool call
Sent(m, ep, keyed) ==
    {i \in 1..Len(reqs) :
        reqs[i].m = m /\ reqs[i].ep = ep /\ (reqs[i].key # <<>>) = keyed}

\* C13: no retries.  Every gateway call that returns has issued its HTTP
\* request exactly once whatever the outcome of the request: api_get one GET,
\* api_patch one PATCH, api_post one POST and at most one follow-up GET; no
\* request is ever sent a second time.
C13_NoRetries ==
    /\ \A i, j \in 1..Len(reqs) : reqs[i] = reqs[j] => i = j
    /\ (op \in Ops \ (CreateOps \cup {"update_opportunity"})) =>
          /\ Len(reqs) <= 1
          /\ (gw.fn = "api_get" /\ gw.outcome = "returned") =>
                /\ Len(reqs) = 1
                /\ reqs[1] = GetRequest(op, "get", args)
    /\ op = "update_opportunity" =>
          /\ Len(reqs) <= 1
          /\ (gw.fn = "api_patch" /\ gw.outcome = "returned") =>
                Len(reqs) = 1 /\ reqs[1].m = "PATCH"
    /\ op \in CreateOps =>
          /\ Cardinality(Sent("GET", "accounts", FALSE)) <= 1
          /\ Cardinality(Sent("GET", "contacts", FALSE)) <= 1
          /\ Cardinality(Sent("POST", Endpoint(op, "post"), FALSE)) <= 1
          /\ Cardinality(Sent("GET", Endpoint(op, "post"), TRUE)) <= 1
          /\ Len(reqs) = Cardinality(Sent("GET", "accounts", FALSE))
                           + Cardinality(Sent("GET", "contacts", FALSE))
                           + Cardinality(Sent("POST", Endpoint(op, "post"), FALSE))
                           + Cardinality(Sent("GET", Endpoint(op, "post"), TRUE))
          /\ (gw.fn = "api_post" /\ gw.outcome = "returned") =>
                Cardinality(Sent("POST", Endpoint(op, "post"), FALSE)) = 1

C13_Witness ==
    /\ op = "create_lead"
    /\ stage = "done"
    /\ raised = "none"
    /\ Len(reqs) = 2
    /\ reqs[1].ep = "accounts"
    /\ acct = Null
    /\ reqs[2].m = "POST"
    /\ post.kind = "error"
    /\ ~result.success

\* C14 as stated: every domain operation issues at most three HTTP round
\* trips to the remote API in total, counting account resolution, contact
\* resolution, the create/patch call and the refetch.
C14_Original ==
    Len(reqs) <= 3

\* C14: every domain operation issues at most four HTTP round trips to the
\* remote API in total; a create issues at most one account search, one
\* contact search, one POST and one follow-up GET, in that order, and every
\* other operation issues at most one request.
C14_AtMostFourRoundTrips ==
    /\ Len(reqs) <= 4
    /\ op \notin CreateOps => Len(reqs) <= 1
    /\ op \in CreateOps =>
          \A i, j \in 1..Len(reqs) :
             i < j =>
                /\ reqs[i].m = "POST" => reqs[j].key # <<>>
                /\ reqs[i].key = <<>>
                /\ reqs[j].ep # "accounts"
                /\ reqs[i].ep = "contacts" => reqs[j].ep = Endpoint(op, "post")

C14_Witness ==
    /\ op = "create_opportunity"
    /\ stage = "done"
    /\ Len(reqs) = 4
    /\ reqs[1].ep = "accounts"
    /\ reqs[2].ep = "contacts"
    /\ reqs[3].m = "POST"
    /\ reqs[4].m = "GET"
    /\ reqs[4].key = guid
    /\ result.success

\* C15: when two tool calls run concurrently under the interactive strategy,
\* token acquisition is serialized: two interactive flows are never in
\* progress at the same time, and no caller reads the cache file while the
\* other caller is writing it.
C15_TokenAcquisitionSerialized ==
    /\ Cardinality({c \in Callers : tm[c].pc = "flow"}) <= 1
    /\ \A c \in Callers : ~tm[c].readWhileWritten

\* C16: under the service-principal strategy every get_access_token call
\* performs a new client-credential exchange and neither reads nor writes the
\* token cache file; no step taken in this mode changes the cache file.
C16_ServiceAccountNoCache ==
    /\ [](authMode = "service_account" =>
             /\ nexch = nacq
             /\ nflow = 0
             /\ ~acq.active)
    /\ [][authMode = "service_account" => cache' = cache]_vars

C16_Witness ==
    /\ authMode = "service_account"
    /\ now = 0
    /\ cache = CacheEntry("tok-A", 600)
    /\ nacq = 2
    /\ nexch = 2
    /\ phase = "send"
    /\ hdrToken = "tok-B"

\* payload keys that are fed by an optional argument of the create call
OptionalFields ==
    {"description", "emailaddress1", "xylos_leadsource",
     "_parentaccountid_value", "_parentcontactid_value", "estimatedclosedate",
     "xylos_contractverlenging", "sca_alreadyplanned"}

\* the caller passed a non-null value for the optional argument behind key k
Supplied(k) ==
    IF k = "description" THEN args.has_description
    ELSE IF k = "emailaddress1" THEN args.email # Null
    ELSE IF k = "xylos_leadsource" THEN args.xylos_leadsource # Null
    ELSE IF k = "_parentaccountid_value" THEN args.account_term # Null
    ELSE IF k = "_parentcontactid_value" THEN args.contact_term # Null
    ELSE IF k = "estimatedclosedate" THEN args.estimated_close_date # Null
    ELSE IF k = "xylos_contractverlenging"
    THEN args.xylos_contractverlenging # Null
    ELSE args.sca_alreadyplanned # Null

\* C17 as stated: a create payload contains an optional field only if the
\* caller supplied a non-null value for the corresponding optional argument.
C17_Original ==
    \A i \in Posts :
       \A k \in OptionalFields \cap DOMAIN reqs[i].data : Supplied(k)

\* C17: a POSTed create payload contains an optional field other than
\* xylos_contractverlenging only if the caller supplied a non-null value for
\* the corresponding optional argument, and no value in it is null.  The
\* payload of create_opportunity always has the keys description and
\* xylos_contractverlenging; the latter carries the optional argument
\* xylos_contractverlenging when that is non-null and the required argument
\* contract_verlengingen otherwise.
C17_OptionalFieldsOnlyIfSupplied ==
    \A i \in Posts :
       LET data == reqs[i].data
       IN  /\ \A k \in (OptionalFields \ {"xylos_contractverlenging"})
                          \cap DOMAIN data :
                 Supplied(k) /\ data[k] # Null
           /\ op = "create_lead" => "xylos_contractverlenging" \notin DOMAIN data
           /\ op = "create_opportunity" =>
                 /\ {"description", "xylos_contractverlenging"}
                       \subseteq DOMAIN data
                 /\ data["xylos_contractverlenging"] =
                       (IF Supplied("xylos_contractverlenging")
                        THEN args.xylos_contractverlenging
                        ELSE args.contract_verlengingen)

C17_Witness ==
    /\ op = "create_opportunity"
    /\ args.estimated_close_date = Null
    /\ args.xylos_contractverlenging = Null
    /\ args.sca_alreadyplanned = "False"
    /\ Posts # {}
    /\ \A i \in Posts :
          /\ "estimatedclosedate" \notin DOMAIN reqs[i].data
          /\ "sca_alreadyplanned" \in DOMAIN reqs[i].data
          /\ reqs[i].data["xylos_contractverlenging"] = "True"

\* payload keys of the form <navigation_property>@odata.bind
ODataBindKeys ==
    {"customerid_account@odata.bind", "parentcontactid@odata.bind",
     "parentaccountid@odata.bind"}

\* the payload sends the reference to record id of entity_set as a binding
SentAsBinding(data, entity_set, id) ==
    \E k \in ODataBindKeys \cap DOMAIN data :
       data[k] = "/" \o entity_set \o "(" \o id \o ")"

\* C18: in every create payload each resolved account or contact reference is
\* sent as '<navigation_property>@odata.bind' -> '/<entity_set>(<guid>)' with
\* the id of the resolved record, and under no other key shape.
C18_ReferencesAsODataBind ==
    \A i \in Posts :
       LET data == reqs[i].data
       IN  /\ Truthy(acct) => SentAsBinding(data, "accounts", acct)
           /\ Truthy(cont) => SentAsBinding(data, "contacts", cont)
           /\ \A k \in DOMAIN data \ ODataBindKeys :
                 ~(Truthy(acct) /\ data[k] = acct)
                   /\ ~(Truthy(cont) /\ data[k] = cont)

\* the substring of h between its last "(" and the first ")" after it, or
\* <<>> when h has no such pair
last_group(h) ==
    IF \E i \in 1..Len(h) : h[i] = "(" /\ \E j \in (i + 1)..Len(h) : h[j] = ")"
    THEN LET i == CHOOSE i \in 1..Len(h) :
                     h[i] = "(" /\ \A k \in (i + 1)..Len(h) : h[k] # "("
             j == CHOOSE j \in (i + 1)..Len(h) :
                     h[j] = ")" /\ \A k \in (i + 1)..(j - 1) : h[k] # ")"
         IN  SubSeq(h, i + 1, j - 1)
    ELSE <<>>

\* C19: api_post takes as GUID the substring between the last "(" and the
\* following ")" of the OData-EntityId header, whatever the header, headers
\* with more than one parenthesised group included; when there is no such
\* substring, or no header, it returns null without a follow-up GET.
C19_GuidFromLastParenthesis ==
    (post.kind = "http" /\ post.status = 204) =>
        /\ guid = last_group(post.header)
        /\ last_group(post.header) = <<>> =>
              /\ gw.fn = "api_post"
              /\ gw.key = Null
              /\ \A i \in 1..Len(reqs) : reqs[i].key = <<>>

\* C20: after an interactive flow at time t has returned a token with lifetime
\* L, the cache file holds the absolute expiry time t + L, so that a later
\* get_access_token call at time t' returns the cached token without a new
\* flow when t' + 300 < t + L, and runs a new flow when t' + 300 >= t + L.
C20_SaveLoadRoundTrip ==
    (authMode = "interactive" /\ lastSave.valid) =>
        /\ cache.state = "entry"
        /\ cache.access_token = lastSave.token
        /\ cache.expires_on = lastSave.time + lastSave.lifetime
        /\ (acq.active /\ ~acq.flowRan) =>
              IF acq.loadTime + 300 < lastSave.time + lastSave.lifetime
              THEN phase = "send" /\ hdrToken = lastSave.token
              ELSE phase = "flow"

\* C21: every HTTP request of the gateway is preceded by a get_access_token
\* call made for that request, and no token obtained for an earlier request of
\* the same operation is reused: a request is sent only with the token of the
\* acquisition that has just ended, the token is dropped once the request is
\* sent, and an operation whose acquisitions all succeed has made as many
\* acquisitions as HTTP requests.
C21_TokenPerRequest ==
    /\ phase = "send" => hdrToken \in Tokens /\ nacq = Len(reqs) + 1
    /\ phase = "flow" => hdrToken = Absent /\ nacq = Len(reqs) + 1
    /\ phase = "headers" => hdrToken = Absent /\ nacq = Len(reqs)
    /\ phase = "-" =>
          /\ hdrToken = Absent
          /\ nacq = Len(reqs) + (IF authFailed THEN 1 ELSE 0)
    /\ authMode = "service_account" => nexch = nacq

C21_Witness ==
    /\ op = "create_lead"
    /\ authMode = "interactive"
    /\ stage = "done"
    /\ ~authFailed
    /\ Len(reqs) = 4
    /\ nacq = 4
    /\ nflow = 4
    /\ result.success

\* value of the lookup whose search was answered r: the first record of the
\* returned list, or None
Resolved(r) ==
    IF r.kind = "http" /\ r.status = 200 /\ r.body.kind = "collection"
         /\ r.body.value # <<>>
    THEN r.body.value[1]
    ELSE Null

\* the payload binds the account (contact) id under the key the call uses
Bound(data, keys, id) ==
    \E k \in keys \cap DOMAIN data :
       data[k] \in {id, "/accounts(" \o id \o ")", "/contacts(" \o id \o ")"}

ContactKeys == {"_parentcontactid_value", "parentcontactid@odata.bind"}

\* C22: every create call resolves at most one account and at most one
\* contact: each resolution is one search with $top = 1, ordered by the
\* display-name field ascending, and the binding carries the first element of
\* the returned list or is left out when the list is empty.
C22_SingleResolution ==
    op \in CreateOps =>
        /\ Cardinality(Sent("GET", "accounts", FALSE)) <= 1
        /\ Cardinality(Sent("GET", "contacts", FALSE)) <= 1
        /\ \A i \in Sent("GET", "accounts", FALSE) :
              reqs[i].top = {1} /\ reqs[i].orderby = "name"
        /\ \A i \in Sent("GET", "contacts", FALSE) :
              reqs[i].top = {1} /\ reqs[i].orderby = "fullname"
        /\ (/\ gw.fn = "api_get"
            /\ gw.outcome = "returned"
            /\ reqs[Len(reqs)].ep = "accounts") =>
              /\ Len(gw.json.value) <= 1
              /\ acct = Resolved(gw.reply)
        /\ (/\ gw.fn = "api_get"
            /\ gw.outcome = "returned"
            /\ reqs[Len(reqs)].ep = "contacts") =>
              /\ Len(gw.json.value) <= 1
              /\ cont = Resolved(gw.reply)
        /\ Sent("GET", "accounts", FALSE) = {} => acct = Null
        /\ Sent("GET", "contacts", FALSE) = {} => cont = Null
        /\ \A i \in Posts :
              /\ IF Truthy(acct)
                 THEN Bound(reqs[i].data, AccountKeys, acct)
                 ELSE DOMAIN reqs[i].data \cap AccountKeys = {}
              /\ IF Truthy(cont)
                 THEN Bound(reqs[i].data, ContactKeys, cont)
                 ELSE DOMAIN reqs[i].data \cap ContactKeys = {}

C22_Witness ==
    /\ op = "create_opportunity"
    /\ stage = "done"
    /\ acct = "accounts-1"
    /\ cont = Null
    /\ Posts # {}
    /\ \A i \in Posts :
          /\ reqs[i].data["customerid_account@odata.bind"] = "/accounts(accounts-1)"
          /\ "parentcontactid@odata.bind" \notin DOMAIN reqs[i].data
    /\ result.success

\* place of a request in the order account search, contact search, POST,
\* refetch GET
StepOf(req) ==
    IF req.m = "POST" THEN 3
    ELSE IF req.key # <<>> THEN 4
    ELSE IF req.ep = "accounts" THEN 1
    ELSE 2

IsPrefix(s, t) == Len(s) <= Len(t) /\ SubSeq(t, 1, Len(s)) = s

\* C23: in every execution of a create the remote calls occur in the order
\* account search, contact search, POST, refetch GET; the POST is issued only
\* after both resolutions have returned, whatever their outcome; and nothing
\* already done is rolled back when a later step fails: the call sends only
\* GETs and the one POST, and what it has sent and resolved stays as it is
\* until the call has ended.
C23_CreateOrder ==
    /\ [](op \in CreateOps =>
             /\ \A i \in 1..Len(reqs) :
                   /\ reqs[i].m \in {"GET", "POST"}
                   /\ reqs[i].m = "GET" /\ reqs[i].key = <<>>
                         => reqs[i].ep \in {"accounts", "contacts"}
             /\ \A i, j \in 1..Len(reqs) :
                   i < j => StepOf(reqs[i]) < StepOf(reqs[j])
             /\ (Posts # {} /\ op = "create_opportunity") =>
                   /\ Sent("GET", "accounts", FALSE) # {}
                   /\ Sent("GET", "contacts", FALSE) # {}
             /\ (Posts # {} /\ op = "create_lead") =>
                   /\ Truthy(args.account_term)
                         => Sent("GET", "accounts", FALSE) # {}
                   /\ Truthy(args.contact_term)
                         => Sent("GET", "contacts", FALSE) # {})
    /\ [][(op \in CreateOps /\ stage # "done") =>
             /\ IsPrefix(reqs, reqs')
             /\ Truthy(acct) => acct' = acct
             /\ Truthy(cont) => cont' = cont]_vars

C23_Witness ==
    /\ op = "create_opportunity"
    /\ stage = "done"
    /\ raised = "none"
    /\ acct = "accounts-1"
    /\ cont = Null
    /\ Len(reqs) = 4
    /\ post.kind = "http"
    /\ post.status = 204
    /\ resp.kind = "error"
    /\ ~result.success

\* the refetch GET was sent and answered 200 with a non-empty business key
RefetchGaveKey ==
    /\ \E i \in 1..Len(reqs) : reqs[i].m = "GET" /\ reqs[i].key # <<>>
    /\ resp.kind = "http"
    /\ resp.status = 200
    /\ resp.body.kind = "entity"
    /\ Truthy(resp.body.field)

\* C24: create_lead and create_opportunity return success = true if and only
\* if the POST was answered 204, a GUID was parsed from the OData-EntityId
\* header and the refetch GET was answered 200 with a non-empty business-key
\* field; a result with success = false can therefore follow a POST answered
\* 204, and nothing undoes that create.
C24_SuccessIffKeyRefetched ==
    (op \in CreateOps /\ stage = "done" /\ raised = "none") =>
        /\ result.kind = "dict"
        /\ result.success <=>
              /\ post.kind = "http"
              /\ post.status = 204
              /\ guid # <<>>
              /\ RefetchGaveKey
        /\ result.success => result.id = resp.body.field
        /\ \A i \in 1..Len(reqs) : reqs[i].m \in {"GET", "POST"}

C24_Witness ==
    /\ op = "create_lead"
    /\ stage = "done"
    /\ post.kind = "http"
    /\ post.status = 204
    /\ guid = <<"guid">>
    /\ reqs[Len(reqs)].key = guid
    /\ resp.kind = "http"
    /\ resp.status = 200
    /\ resp.body.field = Null
    /\ ~result.success
    /\ result.message = "Failed to create lead 'subject'"

\* the searches of a create call
Lookups == {i \in 1..Len(reqs) : reqs[i].m = "GET" /\ reqs[i].key = <<>>}

\* C25: create_lead issues an account search only when parentaccountname is
\* non-empty and a contact search only when parentcontactname is non-empty, so
\* a lead created with neither makes no resolution call; create_opportunity
\* issues both searches before its POST whatever the search terms are, empty
\* ones included.
C25_ConditionalLookups ==
    /\ op = "create_lead" =>
          /\ Sent("GET", "accounts", FALSE) # {} => Truthy(args.account_term)
          /\ Sent("GET", "contacts", FALSE) # {} => Truthy(args.contact_term)
          /\ (~Truthy(args.account_term) /\ ~Truthy(args.contact_term))
                => Lookups = {}
          /\ Posts # {} =>
                /\ Truthy(args.account_term)
                      => Sent("GET", "accounts", FALSE) # {}
                /\ Truthy(args.contact_term)
                      => Sent("GET", "contacts", FALSE) # {}
    /\ op = "create_opportunity" =>
          /\ (Posts # {} \/ (stage = "done" /\ ~authFailed /\ raised = "none"
                              /\ ~OverLong)) =>
                /\ Sent("GET", "accounts", FALSE) # {}
                /\ Sent("GET", "contacts", FALSE) # {}
          /\ stage \in {"cont", "post", "refetch"}
                => Sent("GET", "accounts", FALSE) # {}

C25_Witness ==
    /\ op = "create_opportunity"
    /\ args.account_term = ""
    /\ args.contact_term = ""
    /\ stage = "done"
    /\ Len(reqs) = 4
    /\ reqs[1].ep = "accounts"
    /\ reqs[2].ep = "contacts"
    /\ acct = "accounts-1"
    /\ result.success

\* a cache file that is missing, unreadable, not JSON, or a JSON object
\* without one of its two entries
NoCachedToken(c) ==
    c.state \in {"missing", "unreadable", "garbage", "no_access_token",
                 "no_expires_on"}

WellFormed(c) ==
    /\ c.state = "entry"
    /\ c.access_token \in Tokens
    /\ c.expires_on \in Nat

\* C26: under the interactive strategy, a get_access_token call that finds the
\* cache file missing, unreadable, not valid JSON or without its access_token
\* or expires_on entry takes no token from it and raises nothing at the load:
\* it goes on to the interactive flow, the only raise is the one of a refused
\* flow, and a flow that succeeds returns its own token and leaves a
\* well-formed cache entry holding that token.
C26_BrokenCacheFallsThrough ==
    /\ \A c \in InitCaches :
          NoCachedToken(c) =>
              \A k \in 0..MaxTicks : load_cached_token(c, k * TickLen) = Null
    /\ (/\ authMode = "interactive"
        /\ acq.active
        /\ NoCachedToken(acq.cacheAtLoad)) =>
          /\ phase = "flow" \/ acq.flowRan
          /\ phase = "flow" => raised = "none" /\ cache = acq.cacheAtLoad
          /\ (acq.flowRan /\ acq.flowToken = Absent) =>
                /\ authFailed
                /\ cache = acq.cacheAtLoad
          /\ (acq.flowRan /\ acq.flowToken # Absent) =>
                /\ ~authFailed
                /\ WellFormed(cache)
                /\ cache.access_token = acq.flowToken
                /\ cache.expires_on
                      = lastSave.time + lastSave.lifetime - TOKEN_MARGIN
                /\ phase = "send" => hdrToken = acq.flowToken

C26_Witness ==
    /\ authMode = "interactive"
    /\ acq.active
    /\ acq.cacheAtLoad = NoTokenCache(600)
    /\ acq.loadTime = 0
    /\ acq.flowRan
    /\ acq.flowToken = "tok-B"
    /\ cache = CacheEntry("tok-B", 600)
    /\ phase = "send"
    /\ hdrToken = "tok-B"

====
